---- MODULE Spec2Model ----
(***************************************************************************)
(* Model of pdf_extractor_server.py: the Flask endpoint /extract-pdf-text  *)
(* and the extractor extract_text_from_pdf behind it.                      *)
(*                                                                         *)
(* Python strings are sequences of one-character strings, so that strip,   *)
(* split, join, lower and the f-string of the page block are computed and  *)
(* not assumed.  The PDF library is the environment: a request body is     *)
(* described by its size and by what pdfplumber makes of it (it fails to   *)
(* open, or it opens as a sequence of pages, each of which raises, yields  *)
(* None, or yields a string when extract_text() is called).                *)
(***************************************************************************)
EXTENDS Integers, Sequences, FiniteSets, TLC

VARIABLES pc, req, total_pages, page_num, text_content, result, response, calls

vars == <<pc, req, total_pages, page_num, text_content, result, response, calls>>

(***************************************************************************)
(* Bounds of the model.                                                    *)
(***************************************************************************)
NumReqs == 2        \* request-handling threads of the threaded server
MaxPages == 3       \* longest document made of the short page outcomes
MaxTime == 1        \* datetime.now() reads a value in 0..MaxTime

Reqs == 1..NumReqs
Times == 0..MaxTime

(***************************************************************************)
(* Program constants.                                                      *)
(***************************************************************************)
MAX_FILE_SIZE == 10 * 1024 * 1024
ALLOWED_EXTENSIONS == {<<"p", "d", "f">>}

(***************************************************************************)
(* Strings.                                                                *)
(***************************************************************************)
Whitespace == {" ", "\n", "\t"}

UpperCase == <<"A", "B", "C", "D", "E", "F", "G", "H", "I", "J", "K", "L", "M",
               "N", "O", "P", "Q", "R", "S", "T", "U", "V", "W", "X", "Y", "Z">>
LowerCase == <<"a", "b", "c", "d", "e", "f", "g", "h", "i", "j", "k", "l", "m",
               "n", "o", "p", "q", "r", "s", "t", "u", "v", "w", "x", "y", "z">>
Digit == <<"0", "1", "2", "3", "4", "5", "6", "7", "8", "9">>

Range(s) == {s[i] : i \in DOMAIN s}

SetMin(S) == CHOOSE x \in S : \A y \in S : x <= y
SetMax(S) == CHOOSE x \in S : \A y \in S : y <= x

\* str.lower(), one character
LowerChar(c) ==
    IF \E i \in DOMAIN UpperCase : UpperCase[i] = c
    THEN LowerCase[CHOOSE i \in DOMAIN UpperCase : UpperCase[i] = c]
    ELSE c

\* str.lower()
Lower(s) == [i \in DOMAIN s |-> LowerChar(s[i])]

\* str.strip(chars): drop the leading and trailing characters that are in chars
StripChars(s, chars) ==
    LET keep == {i \in DOMAIN s : s[i] \notin chars}
    IN  IF keep = {} THEN <<>> ELSE SubSeq(s, SetMin(keep), SetMax(keep))

\* the text as it is, not stripped
NoStrip(s) == s

\* str.strip()
Strip(s) == StripChars(s, Whitespace)

\* str.split(): the maximal runs of non-whitespace characters, in order
Split(s) ==
    LET starts == {i \in DOMAIN s : /\ s[i] \notin Whitespace
                                    /\ (i = 1 \/ s[i - 1] \in Whitespace)}
        nth(k) == CHOOSE i \in starts : Cardinality({j \in starts : j <= i}) = k
        stop(i) == SetMin({j \in i..Len(s) : j = Len(s) \/ s[j + 1] \in Whitespace})
    IN  [k \in 1..Cardinality(starts) |-> SubSeq(s, nth(k), stop(nth(k)))]

RECURSIVE JoinFrom(_, _, _)
JoinFrom(sep, parts, k) ==
    IF k > Len(parts) THEN <<>>
    ELSE IF k = Len(parts) THEN parts[k]
    ELSE parts[k] \o sep \o JoinFrom(sep, parts, k + 1)

\* sep.join(parts)
Join(sep, parts) == JoinFrom(sep, parts, 1)

RECURSIVE Str(_)
\* str(n) of a natural number, as the f-string formats page_num
Str(n) == IF n < 10 THEN <<Digit[n + 1]>> ELSE Str(n \div 10) \o <<Digit[(n % 10) + 1]>>

(***************************************************************************)
(* extract_text_from_pdf: the pure parts.                                  *)
(***************************************************************************)
\* f"\n=== PAGE {page_num} ===\n\n{cleaned_text}"
PageBlock(n, cleaned) ==
    <<"\n", "=", "=", "=", " ", "P", "A", "G", "E", " ">> \o Str(n)
        \o <<" ", "=", "=", "=", "\n", "\n">> \o cleaned

\* the block numbered by its rank among the blocks, not by the page's position
AppendPageRenumbered(content, n, outcome) ==
    IF outcome.kind = "text" /\ outcome.text # <<>>
    THEN LET cleaned_text == Strip(outcome.text)
         IN  IF cleaned_text # <<>>
             THEN Append(content, PageBlock(Len(content) + 1, cleaned_text))
             ELSE content
    ELSE content

\* the page loop's body after page.extract_text() returned page_text:
\* the list text_content after the page (None and "" are falsy)
AppendPage(content, n, outcome) ==
    IF outcome.kind = "text" /\ outcome.text # <<>>
    THEN LET cleaned_text == Strip(outcome.text)
         IN  IF cleaned_text # <<>> THEN Append(content, PageBlock(n, cleaned_text))
             ELSE content
    ELSE content

\* "".join(text_content)
FullTextNoSeparator(content) == Join(<<>>, content)

\* full_text = "\n".join(text_content)
FullText(content) == Join(<<"\n">>, content)

\* len(full_text.split(" ")) if full_text else 0
WordCountBySpace(full_text) ==
    IF full_text # <<>>
    THEN Cardinality({i \in DOMAIN full_text : full_text[i] = " "}) + 1
    ELSE 0

\* word_count = len(full_text.split()) if full_text else 0
WordCount(full_text) == IF full_text # <<>> THEN Len(Split(full_text)) ELSE 0

\* char_count = len(full_text)
CharCount(full_text) == Len(full_text)

\* the thresholds with >= in place of >
QualityInclusive(char_count) ==
    IF char_count >= 1000 THEN "excellent"
    ELSE IF char_count >= 500 THEN "good"
    ELSE IF char_count >= 100 THEN "poor"
    ELSE "failed"

Quality(char_count) ==
    IF char_count > 1000 THEN "excellent"
    ELSE IF char_count > 500 THEN "good"
    ELSE IF char_count > 100 THEN "poor"
    ELSE "failed"

SuccessResult(content, pages, now) ==
    LET full_text == FullText(content)
        word_count == WordCount(full_text)
        char_count == CharCount(full_text)
    IN  [success |-> TRUE,
         text |-> full_text,
         metadata |-> [pages |-> pages,
                       characters |-> char_count,
                       words |-> word_count,
                       extraction_method |-> "pdfplumber",
                       quality |-> Quality(char_count),
                       extraction_time |-> now]]

\* a fixed message in place of str(e)
FailureResultGeneric(error, now) ==
    [success |-> FALSE,
     error |-> "Extraction failed",
     text |-> <<>>,
     metadata |-> [pages |-> 0,
                   characters |-> 0,
                   words |-> 0,
                   extraction_method |-> "pdfplumber_failed",
                   quality |-> "failed",
                   extraction_time |-> now]]

FailureResult(error, now) ==
    [success |-> FALSE,
     error |-> error,
     text |-> <<>>,
     metadata |-> [pages |-> 0,
                   characters |-> 0,
                   words |-> 0,
                   extraction_method |-> "pdfplumber_failed",
                   quality |-> "failed",
                   extraction_time |-> now]]

\* one module-level list for every invocation
SharedFrame(r) == 1

\* the local variables of one invocation live in that invocation's frame
Frame(r) == r

(***************************************************************************)
(* The endpoint: the pure parts.                                           *)
(***************************************************************************)
\* filename.lower().endswith("pdf"): no dot required
allowed_file_suffix(filename) ==
    /\ Len(filename) >= 3
    /\ Lower(SubSeq(filename, Len(filename) - 2, Len(filename))) \in ALLOWED_EXTENSIONS

\* '.' in filename and filename.rsplit('.', 1)[1].lower() in ALLOWED_EXTENSIONS
allowed_file(filename) ==
    /\ "." \in Range(filename)
    /\ LET dot == SetMax({i \in DOMAIN filename : filename[i] = "."})
       IN  Lower(SubSeq(filename, dot + 1, Len(filename))) \in ALLOWED_EXTENSIONS

\* file_size >= MAX_FILE_SIZE
TooLargeInclusive(file_size) == file_size >= MAX_FILE_SIZE

\* file_size > MAX_FILE_SIZE
TooLarge(file_size) == file_size > MAX_FILE_SIZE

FilenameChars == Range(UpperCase) \cup Range(LowerCase) \cup Range(Digit) \cup {"_", ".", "-"}

\* werkzeug.utils.secure_filename on ASCII input: path separators become
\* spaces, whitespace runs become "_", characters outside [A-Za-z0-9_.-]
\* are dropped, leading and trailing "." and "_" are stripped
secure_filename(filename) ==
    LET spaced == [i \in DOMAIN filename |-> IF filename[i] = "/" THEN " " ELSE filename[i]]
        joined == Join(<<"_">>, Split(spaced))
        kept == SelectSeq(joined, LAMBDA c : c \in FilenameChars)
    IN  StripChars(kept, {".", "_"})

Rejection(error) ==
    [status |-> 400, body |-> [success |-> FALSE, error |-> error, text |-> <<>>]]

\* the four input checks of extract_pdf_text, in the order of the code;
\* "pass" when the request goes on to the extractor
Validation(q) ==
    IF ~q.hasFile THEN Rejection("Aucun fichier fourni")
    ELSE IF q.filename = <<>> THEN Rejection("Nom de fichier vide")
    ELSE IF ~allowed_file(q.filename) THEN Rejection("Seuls les fichiers PDF sont autorisés")
    ELSE IF TooLarge(q.size) THEN Rejection("Fichier trop volumineux (max 10MB)")
    ELSE [status |-> 0]

\* the failure branch without its status code
StatusAlwaysOk(res) == 200

\* the status code the handler returns with an extraction result
StatusOf(res) == IF ~res.success THEN 500 ELSE 200

\* response_data and its status code
ResponseOf(res, filename) ==
    LET response_data == [success |-> res.success,
                          text |-> res.text,
                          filename |-> secure_filename(filename),
                          metadata |-> res.metadata]
    IN  IF ~res.success
        THEN [status |-> StatusOf(res),
              body |-> [success |-> res.success,
                        text |-> res.text,
                        filename |-> secure_filename(filename),
                        metadata |-> res.metadata,
                        error |-> res.error]]
        ELSE [status |-> StatusOf(res), body |-> response_data]

OptionsResponse == [status |-> 200, body |-> [status |-> "ok"]]


(***************************************************************************)
(* The environment: documents and requests.                                *)
(***************************************************************************)
Raises == [kind |-> "raise", text |-> <<>>]      \* page.extract_text() raises
NoText == [kind |-> "none", text |-> <<>>]       \* page.extract_text() returns None
Text(s) == [kind |-> "text", text |-> s]         \* page.extract_text() returns s

Filler(n) == [i \in 1..n |-> "x"]

\* page texts of 83..984 characters: one such page gives a final text of
\* 100, 101, 500, 501, 1000 or 1001 characters
FillerLengths == {83, 84, 483, 484, 983, 984}

ShortOutcomes ==
    {Raises, NoText, Text(<<>>), Text(<<" ", "\n", "\t">>),
     Text(<<"H", "e", "l", "l", "o">>),
     Text(<<" ", "H", "i", " ", "\t", "y", "o", "u", "\n">>)}

LongOutcomes == {Text(Filler(n)) : n \in FillerLengths}

SeqsUpTo(S, n) == UNION {[1..k -> S] : k \in 0..n}

Opened(pages) == [opens |-> TRUE, error |-> "", pages |-> pages]
Unopenable(error) == [opens |-> FALSE, error |-> error, pages |-> <<>>]

OpenErrors == {"No /Root object! - Is this really a PDF?", "Unexpected EOF"}

\* what pdfplumber makes of a non-empty body
Docs ==
    {Unopenable(e) : e \in OpenErrors}
        \cup {Opened(p) : p \in SeqsUpTo(ShortOutcomes, MaxPages)}
        \cup {Opened(p) : p \in SeqsUpTo(LongOutcomes, 2)}

Filenames ==
    {<<>>,
     <<"a", ".", "p", "d", "f">>,
     <<"A", ".", "P", "D", "F">>,
     <<"a", ".", "P", "d", "f">>,
     <<".", "p", "d", "f">>,
     <<"p", "d", "f">>,
     <<"a", "p", "d", "f">>,
     <<"a", ".", "t", "x", "t">>,
     <<"a", ".", "p", "d", "f", ".", "t", "x", "t">>,
     <<"a", ".", "t", "x", "t", ".", "p", "d", "f">>,
     <<"a", ".", "p", "d", "f", ".">>,
     <<".", ".", "/", "m", "y", " ", "d", "o", "c", ".", "p", "d", "f">>}

Sizes == {0, 2048, MAX_FILE_SIZE, MAX_FILE_SIZE + 1}

Post(hasFile, filename, size, doc) ==
    [method |-> "POST", hasFile |-> hasFile, filename |-> filename, size |-> size, doc |-> doc]

NoFilePost == Post(FALSE, <<>>, 0, Unopenable(""))
OptionsRequest == [method |-> "OPTIONS", hasFile |-> FALSE, filename |-> <<>>, size |-> 0,
                   doc |-> Unopenable("")]

PlainName == <<"a", ".", "p", "d", "f">>
PlainDocs == {Opened(<<Text(<<"H", "e", "l", "l", "o">>)>>), Unopenable("Unexpected EOF")}

\* the requests of the serial specification: every filename with every size,
\* and every document under an accepted name; an empty body never opens
SerialRequests ==
    {OptionsRequest, NoFilePost}
        \cup {Post(TRUE, f, 0, Unopenable("Unexpected EOF")) : f \in Filenames}
        \cup {Post(TRUE, f, n, d) : f \in Filenames, n \in Sizes \ {0}, d \in PlainDocs}
        \cup {Post(TRUE, PlainName, 2048, d) : d \in Docs}

\* the requests of the threaded specification
ThreadedRequests ==
    {OptionsRequest, NoFilePost,
     Post(TRUE, PlainName, 2048, Unopenable("Unexpected EOF")),
     Post(TRUE, PlainName, 2048, Opened(<<Text(<<"H", "e", "l", "l", "o">>)>>)),
     Post(TRUE, PlainName, 2048,
          Opened(<<Raises, Text(<<" ", "H", "i", " ", "\t", "y", "o", "u", "\n">>)>>)),
     Post(TRUE, PlainName, 2048,
          Opened(<<Text(<<"H", "e", "l", "l", "o">>), Text(<<" ", "\n", "\t">>),
                   Text(<<"H", "e", "l", "l", "o">>)>>))}

(***************************************************************************)
(* State.                                                                  *)
(***************************************************************************)
NoRequest == [method |-> "NONE"]
NoResult == [none |-> TRUE]
NoResponse == [status |-> 0]

Init ==
    /\ pc = [r \in Reqs |-> "idle"]
    /\ req = [r \in Reqs |-> NoRequest]
    /\ total_pages = [r \in Reqs |-> 0]
    /\ page_num = [r \in Reqs |-> 0]
    /\ text_content = [r \in Reqs |-> <<>>]
    /\ result = [r \in Reqs |-> NoResult]
    /\ response = [r \in Reqs |-> NoResponse]
    /\ calls = [r \in Reqs |-> 0]

(***************************************************************************)
(* Actions.                                                                *)
(***************************************************************************)
\* a request reaches the route /extract-pdf-text on thread r
Receive(r, requests) ==
    /\ pc[r] = "idle"
    /\ \E q \in requests : req' = [req EXCEPT ![r] = q]
    /\ pc' = [pc EXCEPT ![r] = "received"]
    /\ UNCHANGED <<total_pages, page_num, text_content, result, response, calls>>

\* extract_pdf_text, method OPTIONS
Options(r) ==
    /\ pc[r] = "received"
    /\ req[r].method = "OPTIONS"
    /\ response' = [response EXCEPT ![r] = OptionsResponse]
    /\ pc' = [pc EXCEPT ![r] = "done"]
    /\ UNCHANGED <<req, total_pages, page_num, text_content, result, calls>>

\* extract_pdf_text, method POST, up to the call of the extractor
Validate(r) ==
    /\ pc[r] = "received"
    /\ req[r].method = "POST"
    /\ LET v == Validation(req[r])
       IN  IF v.status = 400
           THEN /\ response' = [response EXCEPT ![r] = v]
                /\ pc' = [pc EXCEPT ![r] = "done"]
           ELSE /\ pc' = [pc EXCEPT ![r] = "extract"]
                /\ UNCHANGED response
    /\ UNCHANGED <<req, total_pages, page_num, text_content, result, calls>>

\* extract_text_from_pdf is called: pdfplumber.open, len(pdf.pages),
\* text_content = [], or the except clause of the function
Open(r) ==
    /\ pc[r] = "extract"
    /\ calls' = [calls EXCEPT ![r] = @ + 1]
    /\ IF req[r].doc.opens
       THEN /\ text_content' = [text_content EXCEPT ![Frame(r)] = <<>>]
            /\ total_pages' = [total_pages EXCEPT ![r] = Len(req[r].doc.pages)]
            /\ page_num' = [page_num EXCEPT ![r] = 1]
            /\ pc' = [pc EXCEPT ![r] = "pages"]
            /\ UNCHANGED result
       ELSE /\ \E now \in Times :
                   result' = [result EXCEPT ![r] = FailureResult(req[r].doc.error, now)]
            /\ pc' = [pc EXCEPT ![r] = "respond"]
            /\ UNCHANGED <<text_content, total_pages, page_num>>
    /\ UNCHANGED <<req, response>>

\* one iteration of the loop over enumerate(pdf.pages, 1)
ExtractPage(r) ==
    /\ pc[r] = "pages"
    /\ page_num[r] <= total_pages[r]
    /\ text_content' = [text_content EXCEPT ![Frame(r)] =
                            AppendPage(@, page_num[r], req[r].doc.pages[page_num[r]])]
    /\ page_num' = [page_num EXCEPT ![r] = @ + 1]
    /\ UNCHANGED <<pc, req, total_pages, result, response, calls>>

\* after the loop: join, statistics, quality, return
Finish(r) ==
    /\ pc[r] = "pages"
    /\ page_num[r] > total_pages[r]
    /\ \E now \in Times :
           result' = [result EXCEPT ![r] =
                          SuccessResult(text_content[Frame(r)], total_pages[r], now)]
    /\ pc' = [pc EXCEPT ![r] = "respond"]
    /\ UNCHANGED <<req, total_pages, page_num, text_content, response, calls>>

\* extract_pdf_text maps the result to the response
Respond(r) ==
    /\ pc[r] = "respond"
    /\ response' = [response EXCEPT ![r] = ResponseOf(result[r], req[r].filename)]
    /\ pc' = [pc EXCEPT ![r] = "done"]
    /\ UNCHANGED <<req, total_pages, page_num, text_content, result, calls>>

\* the response is sent and the handler's frame is gone
Close(r) ==
    /\ pc[r] = "done"
    /\ pc' = [pc EXCEPT ![r] = "idle"]
    /\ req' = [req EXCEPT ![r] = NoRequest]
    /\ total_pages' = [total_pages EXCEPT ![r] = 0]
    /\ page_num' = [page_num EXCEPT ![r] = 0]
    /\ text_content' = [text_content EXCEPT ![Frame(r)] = <<>>]
    /\ result' = [result EXCEPT ![r] = NoResult]
    /\ response' = [response EXCEPT ![r] = NoResponse]
    /\ calls' = [calls EXCEPT ![r] = 0]

\* The handler's own except clause (a 500 "Erreur serveur") has no step: the
\* extractor catches every Exception itself, and no other call of the
\* handler raises on the requests described here.
Handle(r) ==
    \/ Options(r)
    \/ Validate(r)
    \/ Open(r)
    \/ ExtractPage(r)
    \/ Finish(r)
    \/ Respond(r)
    \/ Close(r)

\* one request at a time, any request
Next == Receive(1, SerialRequests) \/ Handle(1)

Spec == Init /\ [][Next]_vars

\* the threaded server: every thread handles requests, steps interleave
NextThreaded == \E r \in Reqs : Receive(r, ThreadedRequests) \/ Handle(r)

SpecThreaded == Init /\ [][NextThreaded]_vars


(***************************************************************************)
(* Vocabulary of the properties.                                           *)
(***************************************************************************)
Hello == <<"H", "e", "l", "l", "o">>
Blank == <<" ", "\n", "\t">>

\* the extractor has returned to the handler of r
Returned(r) == pc[r] \in {"respond", "done"} /\ calls[r] > 0

\* the handler of r has produced its response to a POST
Answered(r) == pc[r] = "done" /\ req[r].method = "POST"

\* the page yields text that is not only whitespace
Yields(outcome) ==
    outcome.kind = "text" /\ \E i \in DOMAIN outcome.text : outcome.text[i] \notin Whitespace

\* the page yields no text, empty text or only whitespace
YieldsNothing(outcome) ==
    \/ outcome.kind = "none"
    \/ outcome.kind = "text" /\ \A i \in DOMAIN outcome.text : outcome.text[i] \in Whitespace

RECURSIVE BlocksJoined(_, _, _)
\* the blocks of the first n pages, in page order, with sep between consecutive blocks
BlocksJoined(pages, n, sep) ==
    IF n = 0 THEN <<>>
    ELSE LET before == BlocksJoined(pages, n - 1, sep)
         IN  IF ~Yields(pages[n]) THEN before
             ELSE IF before = <<>> THEN PageBlock(n, Strip(pages[n].text))
             ELSE before \o sep \o PageBlock(n, Strip(pages[n].text))

\* C1 as stated: on a successful extract the final text is the page blocks
\* concatenated as-is, with no separator between consecutive blocks.
C1_BlocksConcatenatedAsIs ==
    \A r \in Reqs :
        (Returned(r) /\ result[r].success) =>
            result[r].text = BlocksJoined(req[r].doc.pages, Len(req[r].doc.pages), <<>>)

\* C1 amended: on a successful extract the final text is the page blocks
\* joined by one newline between consecutive blocks, so that a block's text
\* is followed by two newlines before the next "=== PAGE <n> ===" line.
C1_BlocksJoinedByNewline ==
    \A r \in Reqs :
        (Returned(r) /\ result[r].success) =>
            result[r].text = BlocksJoined(req[r].doc.pages, Len(req[r].doc.pages), <<"\n">>)

\* the 3-page document Hello / blank / Hello has been extracted
C1_Witness ==
    \E r \in Reqs :
        /\ Returned(r)
        /\ req[r].doc.pages = <<Text(Hello), Text(Blank), Text(Hello)>>
        /\ result[r].text =
               <<"\n", "=", "=", "=", " ", "P", "A", "G", "E", " ", "1", " ", "=", "=", "=",
                 "\n", "\n", "H", "e", "l", "l", "o", "\n",
                 "\n", "=", "=", "=", " ", "P", "A", "G", "E", " ", "3", " ", "=", "=", "=",
                 "\n", "\n", "H", "e", "l", "l", "o">>

\* the delimiter of page n as it stands in the text
Delimiter(n) ==
    <<"\n", "=", "=", "=", " ", "P", "A", "G", "E", " ">> \o Str(n)
        \o <<" ", "=", "=", "=", "\n", "\n">>

\* the places of the text where sub stands
Places(text, sub) ==
    {p \in 1..(Len(text) - Len(sub) + 1) :
        text[p] = sub[1] /\ SubSeq(text, p, p + Len(sub) - 1) = sub}

\* C2: whatever pages raise, a document that opens gives success=true, one
\* block for each page that yields non-whitespace text and none for another
\* page, in ascending order of the original 1-based page number, and
\* metadata.pages is the number of pages of the document.
C2_BadPagesSkipped ==
    \A r \in Reqs :
        (Returned(r) /\ req[r].doc.opens) =>
            LET pages == req[r].doc.pages
                text == result[r].text
                at(n) == Places(text, Delimiter(n))
                trimmed(n) == Strip(pages[n].text)
            IN  /\ result[r].success
                /\ result[r].metadata.pages = Len(pages)
                /\ \A n \in DOMAIN pages :
                       IF Yields(pages[n])
                       THEN /\ Cardinality(at(n)) = 1
                            /\ \A p \in at(n) :
                                   LET from == p + Len(Delimiter(n))
                                   IN  SubSeq(text, from, from + Len(trimmed(n)) - 1) = trimmed(n)
                       ELSE at(n) = {}
                /\ \A m, n \in DOMAIN pages :
                       (m < n) => \A p \in at(m), q \in at(n) : p < q
                /\ \A n \in 0..(Len(pages) + 2) : n \notin DOMAIN pages => at(n) = {}

\* a document whose interior page raises, between two pages with text, has been extracted
C2_Witness ==
    \E r \in Reqs :
        /\ Returned(r)
        /\ req[r].doc.pages = <<Text(Hello), Raises, Text(Hello)>>
        /\ result[r].success
        /\ Places(result[r].text, Delimiter(3)) # {}

\* the number of whitespace-delimited tokens: the places where a token ends
Tokens(text) ==
    Cardinality({i \in DOMAIN text :
                    /\ text[i] \notin Whitespace
                    /\ (i = Len(text) \/ text[i + 1] \in Whitespace)})

\* C3: in a result with success=true, metadata.characters is the length of
\* the returned text and metadata.words is the number of whitespace-delimited
\* tokens of the returned text, delimiter lines included.
C3_CountsOfFinalText ==
    \A r \in Reqs :
        (Returned(r) /\ result[r].success) =>
            /\ result[r].metadata.characters = Len(result[r].text)
            /\ result[r].metadata.words = Tokens(result[r].text)

\* a one-page document "Hello": 22 characters, 5 words with the delimiter line
C3_Witness ==
    \E r \in Reqs :
        /\ Returned(r)
        /\ req[r].doc.pages = <<Text(Hello)>>
        /\ result[r].metadata.characters = 22
        /\ result[r].metadata.words = 5

QualityRank(label) ==
    CASE label = "failed" -> 0
      [] label = "poor" -> 1
      [] label = "good" -> 2
      [] label = "excellent" -> 3

\* C4: the quality label of every result is the step function of
\* metadata.characters: 0..100 failed, 101..500 poor, 501..1000 good, 1001 or
\* more excellent; a larger count never has a lower label.
C4_QualityStepFunction ==
    /\ \A r \in Reqs :
           Returned(r) =>
               LET n == result[r].metadata.characters
                   label == result[r].metadata.quality
               IN  /\ n \in 0..100 => label = "failed"
                   /\ n \in 101..500 => label = "poor"
                   /\ n \in 501..1000 => label = "good"
                   /\ n >= 1001 => label = "excellent"
                   /\ n >= 0
    /\ \A r1, r2 \in Reqs :
           (Returned(r1) /\ Returned(r2)
                /\ result[r1].metadata.characters <= result[r2].metadata.characters) =>
               QualityRank(result[r1].metadata.quality) <= QualityRank(result[r2].metadata.quality)

\* a result of exactly 1000 characters is labelled good
C4_Witness ==
    \E r \in Reqs :
        /\ Returned(r)
        /\ result[r].metadata.characters = 1000
        /\ result[r].metadata.quality = "good"


ZeroedCounters(metadata) ==
    /\ metadata.pages = 0
    /\ metadata.characters = 0
    /\ metadata.words = 0
    /\ metadata.quality = "failed"

\* C5: when the body cannot be opened as a PDF, the extractor returns
\* success=false with the underlying error message, empty text, zeroed
\* metadata and a method tag marking the failure; the endpoint answers 500
\* with success=false, that error, empty text and that metadata, and the
\* extractor has been called once (no retry).
C5_OpenFailure ==
    \A r \in Reqs :
        (Returned(r) /\ ~req[r].doc.opens) =>
            /\ ~result[r].success
            /\ result[r].error = req[r].doc.error
            /\ result[r].text = <<>>
            /\ ZeroedCounters(result[r].metadata)
            /\ result[r].metadata.extraction_method = "pdfplumber_failed"
            /\ calls[r] = 1
            /\ pc[r] = "done" =>
                   /\ response[r].status = 500
                   /\ ~response[r].body.success
                   /\ response[r].body.error = req[r].doc.error
                   /\ response[r].body.text = <<>>
                   /\ response[r].body.metadata = result[r].metadata

\* an unopenable body has been answered
C5_Witness ==
    \E r \in Reqs :
        /\ Answered(r)
        /\ calls[r] = 1
        /\ ~req[r].doc.opens
        /\ req[r].doc.error = "No /Root object! - Is this really a PDF?"
        /\ response[r].status = 500

\* the filename's extension, the part after its last dot, is "pdf" in any case
HasPdfExtension(filename) ==
    \E k \in DOMAIN filename :
        /\ filename[k] = "."
        /\ Len(filename) = k + 3
        /\ filename[k + 1] \in {"p", "P"}
        /\ filename[k + 2] \in {"d", "D"}
        /\ filename[k + 3] \in {"f", "F"}

\* the first input check the request fails, "none" when it passes all four
FirstFailure(q) ==
    IF ~q.hasFile THEN "file"
    ELSE IF Len(q.filename) = 0 THEN "name"
    ELSE IF ~HasPdfExtension(q.filename) THEN "extension"
    ELSE IF q.size > 10485760 THEN "size"
    ELSE "none"

RejectionError(kind) ==
    CASE kind = "file" -> "Aucun fichier fourni"
      [] kind = "name" -> "Nom de fichier vide"
      [] kind = "extension" -> "Seuls les fichiers PDF sont autorisés"
      [] kind = "size" -> "Fichier trop volumineux (max 10MB)"

RejectionKinds == {"file", "name", "extension", "size"}

\* C6: the extractor is invoked only for a POST that passes the four input
\* checks; a POST that fails one ends with 400, success=false and an error
\* string of its own per kind of rejection, and the extractor is not called.
C6_RejectedBeforeExtractor ==
    \A r \in Reqs :
        /\ (calls[r] > 0 \/ pc[r] = "extract") =>
               /\ req[r].method = "POST"
               /\ req[r].hasFile
               /\ req[r].filename # <<>>
               /\ HasPdfExtension(req[r].filename)
               /\ req[r].size <= 10485760
        /\ (Answered(r) /\ FirstFailure(req[r]) # "none") =>
               /\ response[r].status = 400
               /\ ~response[r].body.success
               /\ response[r].body.error \in {RejectionError(k) : k \in RejectionKinds}
               /\ \A k \in RejectionKinds :
                      response[r].body.error = RejectionError(k) =>
                          CASE k = "file" -> ~req[r].hasFile
                            [] k = "name" -> req[r].hasFile /\ req[r].filename = <<>>
                            [] k = "extension" -> req[r].hasFile /\ ~HasPdfExtension(req[r].filename)
                            [] k = "size" -> req[r].hasFile /\ req[r].size > 10485760
               /\ calls[r] = 0

\* a POST whose filename is "pdf", without a dot, has been rejected
C6_Witness ==
    \E r \in Reqs :
        /\ Answered(r)
        /\ req[r].hasFile
        /\ req[r].filename = <<"p", "d", "f">>
        /\ req[r].size = 2048
        /\ response[r].status = 400
        /\ calls[r] = 0

\* C7: a document that opens and whose pages all yield no text, empty text or
\* only whitespace gives success=true, text "", characters 0, words 0, quality
\* "failed" and metadata.pages equal to its page count.
C7_NothingExtracted ==
    \A r \in Reqs :
        (/\ Returned(r)
         /\ req[r].doc.opens
         /\ \A n \in DOMAIN req[r].doc.pages : YieldsNothing(req[r].doc.pages[n])) =>
            /\ result[r].success
            /\ result[r].text = <<>>
            /\ result[r].metadata.characters = 0
            /\ result[r].metadata.words = 0
            /\ result[r].metadata.quality = "failed"
            /\ result[r].metadata.pages = Len(req[r].doc.pages)

\* a document of a whitespace page and a page without text has been extracted
C7_Witness ==
    \E r \in Reqs :
        /\ Returned(r)
        /\ req[r].doc.pages = <<Text(Blank), NoText>>
        /\ result[r].metadata.pages = 2

\* C8: a POST that passes validation is answered from the extractor's one
\* result: 200 with success=true, the sanitized filename, the text and the
\* metadata of the result when it has success=true, a server error when it
\* has success=false; over all POSTs the body's success flag is true exactly
\* when the status is 200.
C8_ResponseFromResult ==
    \A r \in Reqs :
        /\ (Answered(r) /\ FirstFailure(req[r]) = "none") =>
               /\ calls[r] = 1
               /\ IF result[r].success
                  THEN /\ response[r].status = 200
                       /\ response[r].body.success
                       /\ response[r].body.text = result[r].text
                       /\ response[r].body.metadata = result[r].metadata
                       /\ Range(response[r].body.filename) \subseteq FilenameChars
                       /\ response[r].body.filename = secure_filename(req[r].filename)
                  ELSE /\ response[r].status \in 500..599
                       /\ ~response[r].body.success
        /\ Answered(r) => (response[r].body.success <=> response[r].status = 200)
        /\ (pc[r] \in {"idle", "received", "extract", "pages", "respond"}) =>
               response[r] = NoResponse

\* an upload named "../my doc.pdf" has been answered 200 as "my_doc.pdf"
C8_Witness ==
    \E r \in Reqs :
        /\ Answered(r)
        /\ response[r].status = 200
        /\ req[r].filename = <<".", ".", "/", "m", "y", " ", "d", "o", "c", ".", "p", "d", "f">>
        /\ response[r].body.filename = <<"m", "y", "_", "d", "o", "c", ".", "p", "d", "f">>

RECURSIVE ContentAlone(_, _)
\* text_content after the first n pages when the extractor runs alone
ContentAlone(pages, n) ==
    IF n = 0 THEN <<>> ELSE AppendPage(ContentAlone(pages, n - 1), n, pages[n])

\* the result of the extractor running alone on the document, at time now
ExtractAlone(doc, now) ==
    IF doc.opens
    THEN SuccessResult(ContentAlone(doc.pages, Len(doc.pages)), Len(doc.pages), now)
    ELSE FailureResult(doc.error, now)

\* C9: under any interleaving of the threads' steps and after any earlier
\* requests, the result of each request is, apart from the timestamp, the
\* result of the extractor running alone on that request's body; two requests
\* with the same body have the same text and metadata apart from the timestamp.
C9_RequestsIndependent ==
    /\ \A r \in Reqs :
           Returned(r) => result[r] = ExtractAlone(req[r].doc, result[r].metadata.extraction_time)
    /\ \A r1, r2 \in Reqs :
           (Returned(r1) /\ Returned(r2) /\ req[r1].doc = req[r2].doc) =>
               /\ result[r1].text = result[r2].text
               /\ [result[r1].metadata EXCEPT !.extraction_time = 0]
                      = [result[r2].metadata EXCEPT !.extraction_time = 0]

\* two threads have extracted the same 3-page document at different times
C9_Witness ==
    \E r1, r2 \in Reqs :
        /\ r1 # r2
        /\ Returned(r1)
        /\ Returned(r2)
        /\ req[r1].doc = req[r2].doc
        /\ Len(req[r1].doc.pages) = 3
        /\ result[r1].metadata.extraction_time # result[r2].metadata.extraction_time

\* C10: the checks run in the order file, filename, extension, size and only
\* the first failing one is reported; the size check is strict: a body of
\* exactly 10*1024*1024 bytes goes to the extractor, one byte more is
\* rejected with 400.
C10_CheckOrder ==
    \A r \in Reqs :
        Answered(r) =>
            /\ FirstFailure(req[r]) # "none" =>
                   /\ response[r].status = 400
                   /\ response[r].body.error = RejectionError(FirstFailure(req[r]))
            /\ (req[r].hasFile /\ ~HasPdfExtension(req[r].filename) /\ req[r].size > 10485760) =>
                   response[r].body.error # RejectionError("size")
            /\ (FirstFailure(req[r]) \in {"none", "size"} /\ req[r].size = 10485760) =>
                   calls[r] = 1 /\ response[r].status # 400
            /\ (FirstFailure(req[r]) \in {"none", "size"} /\ req[r].size = 10485760 + 1) =>
                   calls[r] = 0 /\ response[r].status = 400

\* a body of exactly 10 MiB under an accepted name has been extracted
C10_Witness ==
    \E r \in Reqs :
        /\ Answered(r)
        /\ req[r].size = 10485760
        /\ calls[r] = 1
        /\ response[r].status = 200


====
